---- MODULE Spec2Model ----
(***************************************************************************)
(* Umbrella sampling workflow of section_2/custom_forces.ipynb:            *)
(*   cell "Step 1"  steered MD (SMD) pulling loop and snapshot save,       *)
(*   cell "Step 2"  run_window and the loop that runs all windows,         *)
(*   cell "Step 3"  histogram / metafile generation and the wham command.  *)
(*                                                                         *)
(* Lengths are integers in units of 1/230000 nm, so that the 24 centres    *)
(* of np.linspace(1.3, 3.3, 24) (spacing 2/23 nm) and the per-iteration    *)
(* increment of r0 (0.0008 nm) are both exact.                             *)
(*                                                                         *)
(* The dynamics engine is external: the CV of the configuration after      *)
(* simulation.step is any element of CVValues, and a step call made by     *)
(* run_window may raise.  A configuration is represented by the CV it has  *)
(* (ctx_cv) and by where its positions came from (ctx_origin).  A row of a *)
(* CV timeseries records, in place of the float in its second column, what *)
(* that float was evaluated on: the origin of the configuration, the       *)
(* restraint centre in the context and the simulation step.                *)
(***************************************************************************)
EXTENDS Integers, Sequences, FiniteSets, TLC

\* ---- program constants -------------------------------------------------
r0_start == 299000          \* r0 = 1.3*unit.nanometers
v_pulling == 2              \* 0.02 nm/ps, in 1e-2 nm/ps
dt == 4                     \* 0.004 ps, in 1e-3 ps
total_steps == 30000
increment_steps == 10
linspace_start == 299000    \* 1.3 nm
linspace_stop == 759000     \* 3.3 nm
linspace_num == 24
smd_equil_steps == 1000     \* simulation.step(1000) before the pulling loop
equil_steps == 1000         \* simulation.step(1000) of run_window
window_total_steps == 10000 \* total_steps local to run_window
record_steps == 100
num_runs == 24              \* for n in range(24)
metafile_fc == 1000         \* the literal 1000 of the metafile line
fc_pull == 1000             \* fc_pull = 1000.0 kJ/mol/nm^2

\* ---- the external engine ----------------------------------------------
\* CV values the engine may produce: CVBelow (1.0 nm, below every target),
\* exactly windows[1], and CVAbove (3.4 nm, above every target).
CVBelow == 230000
CVAbove == 782000

NoWindow == 0 - 1

\* np.linspace(1.3, 3.3, 24), indexed from 0 as in the notebook
windows == [k \in 0..(linspace_num - 1) |->
              linspace_start + (k * (linspace_stop - linspace_start)) \div (linspace_num - 1)]

CVValues == {CVBelow, windows[1], CVAbove}

\* the increment of a loop that moves the center every 2500 steps
r0_increment_Coarse == (v_pulling * dt * increment_steps * 250 * 23) \div 10

\* v_pulling * dt * increment_steps: 1e-5 nm is 23/10 length units
r0_increment == (v_pulling * dt * increment_steps * 23) \div 10

\* total_steps//increment_steps
NumChecks == total_steps \div increment_steps

\* a data collection loop that runs once too often
NumSamples_OneMore == window_total_steps \div record_steps + 1

\* total_steps//record_steps inside run_window
NumSamples == window_total_steps \div record_steps

VARIABLES
  pc,               \* position in the notebook
  currentStep,      \* simulation.currentStep
  dcd_frames,       \* smd_traj.dcd: the steps at which a frame was written
  ctx_cv,           \* CV of the configuration held by simulation.context
  ctx_origin,       \* NoWindow: configuration comes from the pdb/steering; w: from window_w.pdb
  ctx_r0,           \* global parameter r0 of simulation.context
  r0,               \* python global r0 of the SMD cell
  i,                \* loop variable of the SMD pulling loop
  current_cv_value, \* python global current_cv_value of the SMD cell
  window_index,     \* python global window_index
  window_coords,    \* python global window_coords
  pdb_files,        \* window_k.pdb files on disk: k -> stored snapshot
  n,                \* loop variable of "for n in range(24)"
  wpc,              \* position inside run_window
  rec_i,            \* loop variable i of run_window
  cv_values,        \* local list cv_values of run_window
  cv_files,         \* cv_values_window_k.txt files on disk: k -> rows
  raised,           \* exceptions that ended a cell
  metafile,         \* lines of metafile.txt, <<>> while it does not exist
  wham_runs,        \* invocations of the wham program
  cfg_windows,      \* the target list the SMD cell is run with
  cfg_fc,           \* the force constant fc_pull the SMD cell is run with
  hist_support,     \* per window, the CV values np.loadtxt found in its timeseries
  wham_log,         \* how the last wham run ended, as written to wham_log.txt
  pmf_file,         \* pmf.txt
  plot,             \* the figures drawn by the PMF plotting cell
  chk_pc,           \* position in the checkpoint cells of protein_in_water
  sim_step,         \* simulation.currentStep of protein_in_water's Simulation
  chk_file,         \* checkpoint.chk: the step of the state it holds, NoFile if absent
  chk_reporter,     \* a CheckpointReporter is attached to the Simulation
  run_chunks,       \* 10-step pieces done by the running runForClockTime
  last_stop,        \* the step at which the last runForClockTime returned
  loop_i,           \* loop variable of "for i in range(3)"
  chk_writer,       \* the run that wrote checkpoint.chk (0: first run), NoRun if absent
  last_loaded,      \* the step restored by the last successful loadCheckpoint
  md_log_tail,      \* the step column of the last two rows of md_log.txt
  lj_cell,          \* the Lennard-Jones simulation cell at hand (1..3)
  lj_pc,            \* position in that cell
  lj_vel,           \* per Simulation, the temperature of its context's velocities
  lj_steps          \* per Simulation, the steps taken

vars == <<pc, currentStep, dcd_frames, ctx_cv, ctx_origin, ctx_r0, r0, i, current_cv_value,
          window_index, window_coords, pdb_files, n, wpc, rec_i, cv_values,
          cv_files, raised, metafile, wham_runs, cfg_windows, cfg_fc,
          hist_support, wham_log, pmf_file, plot,
          chk_pc, sim_step, chk_file, chk_reporter, run_chunks, last_stop, loop_i,
          chk_writer, last_loaded, md_log_tail, lj_cell, lj_pc, lj_vel, lj_steps>>

smdVars == <<r0, i, current_cv_value, window_index, window_coords>>
runVars == <<n, wpc, rec_i, cv_values>>
whamVars == <<metafile, wham_runs>>
cfgVars == <<cfg_windows, cfg_fc>>

\* variables of the other notebook sections, untouched by the umbrella
\* sampling cells
anaVars == <<hist_support, wham_log, pmf_file, plot>>
chkVars == <<chk_pc, sim_step, chk_file, chk_reporter, run_chunks, last_stop, loop_i,
             chk_writer, last_loaded, md_log_tail>>
ljVars == <<lj_cell, lj_pc, lj_vel, lj_steps>>
extVars == <<cfgVars, anaVars, chkVars, ljVars>>

\* no timeseries read yet, wham not run, no pmf.txt, nothing plotted
NoHist == [w \in {} |-> {}]
NoPMF == [outcome |-> "NONE"]
AnalysisIdle ==
  /\ hist_support = NoHist
  /\ wham_log = "NONE"
  /\ pmf_file = NoPMF
  /\ plot = <<>>

\* the configuration written in the SMD cell
NotebookConfig ==
  /\ cfg_windows = windows
  /\ cfg_fc = fc_pull

\* ---- protein_in_water.ipynb: constants -----------------------------------
\* simulation.step(10000), NVT
nvt_steps == 10000

\* simulation.step(10000), NPT (exercise, as the Solutions give it)
npt_steps == 10000

\* CheckpointReporter('checkpoint.chk', 1000)
checkpoint_interval == 1000

\* for i in range(3)
resume_iterations == 3

\* runForClockTime advances the integrator 10 steps between two looks at
\* the wall clock
clock_check_steps == 10

\* the most 10-step pieces a 30 s run is followed for
MaxRunChunks == 120

\* StateDataReporter('md_log.txt', 100, ...)
md_log_interval == 100

NoFile == 0 - 1
NoRun == 0 - 1

\* protein_in_water before the cell "Setup the Checkpoint": NVT and NPT
\* done, no checkpoint reporter, no checkpoint.chk
ChkIdle ==
  /\ chk_pc = "setup"
  /\ sim_step = nvt_steps + npt_steps
  /\ chk_file = NoFile
  /\ chk_reporter = FALSE
  /\ run_chunks = 0
  /\ last_stop = nvt_steps + npt_steps
  /\ loop_i = 0
  /\ chk_writer = NoRun
  /\ last_loaded = NoFile
  /\ md_log_tail = <<nvt_steps + npt_steps - md_log_interval, nvt_steps + npt_steps>>

\* app.DCDReporter('smd_traj.dcd', 10000)
dcd_interval == 10000

\* a Simulation that writes no trajectory frame
NewFrames_None(from, to) == {}

\* simulation.step(...) from step `from` to step `to`: the DCDReporter writes
\* a frame at every multiple of its interval on the way
NewFrames(from, to) ==
  {k * dcd_interval : k \in (from \div dcd_interval + 1)..(to \div dcd_interval)}

\* the frames written by a Simulation that has reached `step`
FramesUpTo(step) == NewFrames(0, step)

\* ---- Lennard-Jones section: constants ----------------------------------
\* setVelocitiesToTemperature(300*unit.kelvin)
lj_temperature == 300

\* app.StateDataReporter(stdout, 100, ...)
lj_report_interval == 100

\* temperatures the reporter can show besides the target, one below and
\* one above it
TempCold == 150
TempHot == 450

LJTemps == {TempCold, lj_temperature, TempHot}

\* a Simulation that does not exist yet; the velocities of a new context
NoContext == 0 - 1
ZeroVelocities == 0

\* the Simulation each of the three cells creates and runs
LJSim(cell) ==
  IF cell = 1 THEN "simulation"
  ELSE IF cell = 2 THEN "standard_simulation" ELSE "new_simulation"

\* simulation.step(1000), standard_simulation.step(1000), new_simulation.step(2000)
LJRunSteps(cell) == IF cell = 3 THEN 2000 ELSE 1000

LJSims == {LJSim(c) : c \in 1..3}

\* before the cell that creates `simulation`
LJIdle ==
  /\ lj_cell = 1
  /\ lj_pc = "setup"
  /\ lj_vel = [s \in LJSims |-> NoContext]
  /\ lj_steps = [s \in LJSims |-> 0]

\* ---- initial state: Simulation constructed, positions set (576-582) ---
InitState ==
  /\ pc = "equilibrate"
  /\ currentStep = 0
  /\ ctx_cv = CVBelow
  /\ ctx_origin = NoWindow
  /\ ctx_r0 = r0_start
  /\ r0 = r0_start
  /\ i = 0
  /\ current_cv_value = 0
  /\ window_index = 0
  /\ window_coords = <<>>
  /\ pdb_files = [k \in {} |-> 0]
  /\ n = 0
  /\ wpc = "idle"
  /\ rec_i = 0
  /\ cv_values = <<>>
  /\ cv_files = [k \in {} |-> 0]
  /\ dcd_frames = FramesUpTo(currentStep)
  /\ raised = {}
  /\ metafile = <<>>
  /\ wham_runs = <<>>

Init == InitState /\ NotebookConfig /\ AnalysisIdle /\ ChkIdle /\ LJIdle

\* ---- cell "Step 1" ------------------------------------------------------
\* simulation.step(1000); r0, the restraint and the windows are defined
Equilibrate ==
  /\ pc = "equilibrate"
  /\ currentStep' = currentStep + smd_equil_steps
  /\ dcd_frames' = dcd_frames \cup NewFrames(currentStep, currentStep')
  /\ \E c \in CVValues : ctx_cv' = c
  /\ pc' = "smd"
  /\ UNCHANGED <<ctx_origin, ctx_r0, smdVars, pdb_files, runVars, cv_files, raised, whamVars>>
  /\ UNCHANGED extVars

\* a capture test against the first target instead of the pointed one
ShouldCapture_FirstTarget(idx, cv) == cv >= cfg_windows[0]

\* the window capture test of the pulling loop
\* (windows is the python list of the cell: cfg_windows)
ShouldCapture(idx, cv) ==
  idx < Cardinality(DOMAIN cfg_windows) /\ cv >= cfg_windows[idx]

\* a getState taken before simulation.step of the iteration
StoredSnapshot_BeforeStep(before, after) == [cv |-> before]

\* simulation.context.getState(getPositions=True, ...).getPositions() in the
\* capture branch: the configuration the context holds after the steps of
\* this iteration, the one whose CV was evaluated
StoredSnapshot(before, after) == [cv |-> after]

\* a center assigned from the starting value instead of accumulated
AdvanceCenter_FromStart(center) == r0_start + r0_increment

\* r0 += v_pulling * dt * increment_steps
AdvanceCenter(center) == center + r0_increment

\* one iteration of the pulling loop
SMDStep ==
  /\ pc = "smd"
  /\ i < NumChecks
  /\ \E c \in CVValues :
       /\ ctx_cv' = c
       /\ current_cv_value' = c
       /\ IF ShouldCapture(window_index, c)
            THEN /\ window_coords' = Append(window_coords, StoredSnapshot(ctx_cv, c))
                 /\ window_index' = window_index + 1
            ELSE UNCHANGED <<window_coords, window_index>>
  /\ currentStep' = currentStep + increment_steps
  /\ dcd_frames' = dcd_frames \cup NewFrames(currentStep, currentStep')
  /\ r0' = AdvanceCenter(r0)
  /\ ctx_r0' = r0'
  /\ i' = i + 1
  /\ pc' = IF i + 1 = NumChecks THEN "save" ELSE "smd"
  /\ UNCHANGED <<ctx_origin, pdb_files, runVars, cv_files, raised, whamVars>>
  /\ UNCHANGED extVars

\* a save loop that numbers the files from 1
SnapshotFiles_FromOne(coords) == [k \in 1..Len(coords) |-> coords[k]]

\* for i, coords in enumerate(window_coords): write window_{i}.pdb
SnapshotFiles(coords) == [k \in 0..(Len(coords) - 1) |-> coords[k + 1]]

\* "Save the window structures": one file per element of window_coords
SaveWindows ==
  /\ pc = "save"
  /\ pdb_files' = SnapshotFiles(window_coords)
  /\ pc' = "ready"
  /\ UNCHANGED <<currentStep, dcd_frames, ctx_cv, ctx_origin, ctx_r0, smdVars, runVars, cv_files, raised, whamVars>>
  /\ UNCHANGED extVars

NextSMD == Equilibrate \/ SMDStep \/ SaveWindows

SpecSMD == Init /\ [][NextSMD]_vars

\* ---- the SMD cell run with other target lists and force constants ------
\* two-target lists: increasing, and decreasing
CfgTargetLists ==
  { [k \in 0..1 |-> windows[k]], [k \in 0..1 |-> windows[1 - k]] }

CfgForceConstants == {fc_pull, 0}

InitCfg ==
  /\ InitState
  /\ cfg_windows \in CfgTargetLists
  /\ cfg_fc \in CfgForceConstants
  /\ AnalysisIdle
  /\ ChkIdle
  /\ LJIdle

SpecCfg == InitCfg /\ [][NextSMD]_vars

\* ---- cell "Step 2" ------------------------------------------------------
\* an exception leaves the cell: run_window's locals are gone, the loop
\* "for n in range(24)" is abandoned with n at the failing window
RaiseInWindows(kind) ==
  /\ raised' = raised \cup {[cell |-> "windows", kind |-> kind, window |-> n]}
  /\ pc' = "windows_raised"
  /\ wpc' = "idle"
  /\ rec_i' = 0
  /\ cv_values' = <<>>
  /\ UNCHANGED n

\* the cell "for n in range(24): run_window(n)" is started
StartWindows ==
  /\ pc = "ready"
  /\ pc' = "windows"
  /\ n' = 0
  /\ wpc' = "load"
  /\ UNCHANGED <<currentStep, dcd_frames, ctx_cv, ctx_origin, ctx_r0, smdVars, pdb_files,
                 rec_i, cv_values, cv_files, raised, whamVars>>
  /\ UNCHANGED extVars

\* run_window that reads window_0.pdb whatever its argument
SetPositionsOrigin_FirstWindow(cur, w) == 0

\* run_window without setPositions: the context keeps the configuration
\* the previous run left
SetPositionsOrigin_Skipped(cur, w) == cur

\* simulation.context.setPositions(pdb.positions): the context now holds
\* the configuration read from window_w.pdb
SetPositionsOrigin(cur, w) == w

\* run_window without setParameter: the context keeps the centre it had
SetWindowRestraint_Skipped(cur, w) == cur

\* r0 = windows[window_index]; simulation.context.setParameter('r0', r0)
SetWindowRestraint(cur, w) == windows[w]

\* run_window up to the equilibration: load window_n.pdb, set positions,
\* velocities and the restraint centre
RunWindowLoad ==
  /\ pc = "windows"
  /\ wpc = "load"
  /\ IF n \in DOMAIN pdb_files
       THEN /\ ctx_origin' = SetPositionsOrigin(ctx_origin, n)
            /\ ctx_cv' = pdb_files[n].cv
            /\ ctx_r0' = SetWindowRestraint(ctx_r0, n)
            /\ wpc' = "equil"
            /\ UNCHANGED <<pc, n, rec_i, cv_values, raised>>
       ELSE /\ RaiseInWindows("FileNotFoundError")
            /\ UNCHANGED <<ctx_origin, ctx_cv, ctx_r0>>
  /\ UNCHANGED <<currentStep, dcd_frames, smdVars, pdb_files, cv_files, whamVars>>
  /\ UNCHANGED extVars

\* simulation.step(1000) of run_window; cv_values = []
RunWindowEquil ==
  /\ pc = "windows"
  /\ wpc = "equil"
  /\ \/ /\ currentStep' = currentStep + equil_steps
        /\ dcd_frames' = dcd_frames \cup NewFrames(currentStep, currentStep')
        /\ \E c \in CVValues : ctx_cv' = c
        /\ wpc' = "record"
        /\ rec_i' = 0
        /\ cv_values' = <<>>
        /\ UNCHANGED <<pc, n, raised>>
     \/ /\ RaiseInWindows("OpenMMException")
        /\ UNCHANGED <<currentStep, dcd_frames, ctx_cv>>
  /\ UNCHANGED <<ctx_origin, ctx_r0, smdVars, pdb_files, cv_files, whamVars>>
  /\ UNCHANGED extVars

\* one iteration of the data collection loop of run_window
RunWindowRecord ==
  /\ pc = "windows"
  /\ wpc = "record"
  /\ rec_i < NumSamples
  /\ \/ /\ currentStep' = currentStep + record_steps
        /\ dcd_frames' = dcd_frames \cup NewFrames(currentStep, currentStep')
        /\ \E c \in CVValues : ctx_cv' = c
        /\ cv_values' = Append(cv_values,
              [i |-> rec_i, src |-> ctx_origin, r0 |-> ctx_r0, step |-> currentStep'])
        /\ rec_i' = rec_i + 1
        /\ UNCHANGED <<pc, n, wpc, raised>>
     \/ /\ RaiseInWindows("OpenMMException")
        /\ UNCHANGED <<currentStep, dcd_frames, ctx_cv>>
  /\ UNCHANGED <<ctx_origin, ctx_r0, smdVars, pdb_files, cv_files, whamVars>>
  /\ UNCHANGED extVars

\* np.savetxt(...) and return; the loop over n goes on or the cell ends
RunWindowSave ==
  /\ pc = "windows"
  /\ wpc = "record"
  /\ rec_i = NumSamples
  /\ cv_files' = [k \in (DOMAIN cv_files) \cup {n} |->
                    IF k = n THEN cv_values ELSE cv_files[k]]
  /\ cv_values' = <<>>
  /\ rec_i' = 0
  /\ IF n + 1 < num_runs
       THEN /\ n' = n + 1
            /\ wpc' = "load"
            /\ pc' = "windows"
       ELSE /\ n' = n
            /\ wpc' = "idle"
            /\ pc' = "windows_done"
  /\ UNCHANGED <<currentStep, dcd_frames, ctx_cv, ctx_origin, ctx_r0, smdVars, pdb_files, raised, whamVars>>
  /\ UNCHANGED extVars

\* ---- cell "Step 3" ------------------------------------------------------
\* histogram plot and metafile: np.loadtxt of every cv_values_window_i.txt
\* comes before metafile.txt is opened for writing
\* a metafile line that pairs a timeseries file with the next window's centre
MetafileLine_NextCenter(k) ==
  [file |-> k, center |-> windows[(k + 1) % linspace_num], fc |-> metafile_fc]

\* f'cv_values_window_{i}.txt {windows[i]} 1000\n'
MetafileLine(k) == [file |-> k, center |-> windows[k], fc |-> metafile_fc]

\* What data = np.loadtxt(...) of the histogram cell can hold: every
\* recorded value is one the engine can give, so a window's timeseries holds
\* any non-empty set of them. Three cases are followed: every window holds
\* every value; window 0 holds other values than window 1; neighbours share
\* exactly one value.
HistSupports ==
  { [w \in DOMAIN windows |-> CVValues],
    [w \in DOMAIN windows |-> IF w = 0 THEN {CVBelow} ELSE {windows[1], CVAbove}],
    [w \in DOMAIN windows |-> IF w % 2 = 0 THEN {CVBelow, windows[1]}
                                          ELSE {windows[1], CVAbove}] }

\* a metafile cell that does not read the timeseries files
AllTimeseriesLoadable_Unchecked(files) == TRUE

\* np.loadtxt succeeds for every window of the list
AllTimeseriesLoadable(files) == \A k \in DOMAIN windows : k \in DOMAIN files

Metafile ==
  /\ pc \in {"windows_done", "windows_raised"}
  /\ IF AllTimeseriesLoadable(cv_files)
       THEN /\ hist_support' \in HistSupports
            /\ metafile' = [k \in 1..linspace_num |-> MetafileLine(k - 1)]
            /\ pc' = "meta_done"
            /\ UNCHANGED raised
       ELSE /\ raised' = raised \cup
                 {[cell |-> "metafile", kind |-> "FileNotFoundError",
                   window |-> CHOOSE k \in DOMAIN windows :
                                /\ k \notin DOMAIN cv_files
                                /\ \A j \in 0..(k - 1) : j \in DOMAIN cv_files]}
            /\ pc' = "meta_raised"
            /\ UNCHANGED <<metafile, hist_support>>
  /\ UNCHANGED <<currentStep, dcd_frames, ctx_cv, ctx_origin, ctx_r0, smdVars, pdb_files, runVars,
                 cv_files, wham_runs>>
  /\ UNCHANGED <<cfgVars, chkVars, ljVars, wham_log, pmf_file, plot>>

\* The ways a run of the external wham program over a readable metadata
\* file can end: the tolerance was met, or the iteration limit was hit. In
\* both the free-energy file is written.
WhamOutcomes == {"CONVERGED", "MAX_ITER_EXCEEDED"}

\* !./wham/wham/wham 1.3 3.3 50 1e-6 300 0 metafile.txt pmf.txt > wham_log.txt
\* The shell command never raises in the notebook; what wham prints goes to
\* wham_log.txt. Without metafile.txt, or when the program cannot run, it
\* ends in an error and pmf.txt is left as it was.
Wham ==
  /\ pc \in {"meta_done", "meta_raised"}
  /\ wham_runs' = Append(wham_runs, [meta |-> metafile])
  /\ \E outcome \in (IF metafile = <<>> THEN {} ELSE WhamOutcomes) \cup {"ERROR"} :
       /\ wham_log' = outcome
       /\ pmf_file' = IF outcome = "ERROR" THEN pmf_file ELSE [outcome |-> outcome]
  /\ pc' = "wham_done"
  /\ UNCHANGED <<currentStep, dcd_frames, ctx_cv, ctx_origin, ctx_r0, smdVars, pdb_files, runVars,
                 cv_files, raised, metafile>>
  /\ UNCHANGED <<cfgVars, chkVars, ljVars, hist_support, plot>>

\* ---- cell "Plot the PMF" (857-863) -------------------------------------
\* plt.plot(pmf[:,0], pmf[:,1]): the two columns of pmf.txt and nothing else
PlottedPMF(p) == [pmf |-> p, marked_unconverged |-> FALSE]

PlotPMF ==
  /\ pc = "wham_done"
  /\ IF pmf_file = NoPMF
       THEN /\ raised' = raised \cup
                 {[cell |-> "plot", kind |-> "FileNotFoundError", window |-> NoWindow]}
            /\ pc' = "plot_raised"
            /\ UNCHANGED plot
       ELSE /\ plot' = Append(plot, PlottedPMF(pmf_file))
            /\ pc' = "plotted"
            /\ UNCHANGED raised
  /\ UNCHANGED <<currentStep, dcd_frames, ctx_cv, ctx_origin, ctx_r0, smdVars, pdb_files, runVars,
                 cv_files, whamVars>>
  /\ UNCHANGED <<cfgVars, chkVars, ljVars, hist_support, wham_log, pmf_file>>

NextWindows == StartWindows \/ RunWindowLoad \/ RunWindowEquil \/ RunWindowRecord
                 \/ RunWindowSave \/ Metafile \/ Wham \/ PlotPMF

Next == NextSMD \/ NextWindows

Spec == Init /\ [][Next]_vars

\* ---- the notebook after cell "Step 1" ----------------------------------
\* States in which the SMD cell can end: the pulling loop has made all its
\* checks, the first captured targets of the list have a snapshot (the
\* engine gave CVAbove at the first checks and CVBelow afterwards) and the
\* snapshots are saved.
r0_final == r0_start + NumChecks * r0_increment

SMDEndState(captured) ==
  /\ pc = "ready"
  /\ currentStep = smd_equil_steps + total_steps
  /\ ctx_cv = CVBelow
  /\ ctx_origin = NoWindow
  /\ ctx_r0 = r0_final
  /\ r0 = r0_final
  /\ i = NumChecks
  /\ current_cv_value = CVBelow
  /\ window_index = captured
  /\ window_coords = [k \in 1..captured |-> [cv |-> CVAbove]]
  /\ pdb_files = [k \in 0..(captured - 1) |-> [cv |-> CVAbove]]
  /\ n = 0
  /\ wpc = "idle"
  /\ rec_i = 0
  /\ cv_values = <<>>
  /\ cv_files = [k \in {} |-> 0]
  /\ dcd_frames = FramesUpTo(currentStep)
  /\ raised = {}
  /\ metafile = <<>>
  /\ wham_runs = <<>>
  /\ NotebookConfig
  /\ AnalysisIdle
  /\ ChkIdle
  /\ LJIdle

\* nothing captured, one target captured, all but the last, all of them
CapturedCounts == {0, 1, linspace_num - 1, linspace_num}

InitWindows == \E captured \in CapturedCounts : SMDEndState(captured)

SpecWindows == InitWindows /\ [][NextWindows]_vars

\* ---- run_window called for any window after any other -----------------
\* The timeseries run_window(w) leaves when called first after steering.
FirstCallRows(w) ==
  [k \in 1..NumSamples |->
     [i |-> k - 1, src |-> w, r0 |-> windows[w],
      step |-> smd_equil_steps + total_steps + equil_steps + k * record_steps]]

\* States at the entry of run_window(w): steering captured every target,
\* and either no window has run yet or run_window(prev) has returned, for
\* any prev, leaving its configuration (of any CV) and centre in the context.
AnyCallState(w, prev, c) ==
  /\ pc = "windows"
  /\ currentStep = smd_equil_steps + total_steps
                     + (IF prev = NoWindow THEN 0 ELSE equil_steps + window_total_steps)
  /\ ctx_cv = c
  /\ ctx_origin = prev
  /\ ctx_r0 = IF prev = NoWindow THEN r0_final ELSE windows[prev]
  /\ r0 = r0_final
  /\ i = NumChecks
  /\ current_cv_value = CVBelow
  /\ window_index = linspace_num
  /\ window_coords = [k \in 1..linspace_num |-> [cv |-> CVAbove]]
  /\ pdb_files = [k \in 0..(linspace_num - 1) |-> [cv |-> CVAbove]]
  /\ n = w
  /\ wpc = "load"
  /\ rec_i = 0
  /\ cv_values = <<>>
  /\ cv_files = [k \in (IF prev = NoWindow THEN {} ELSE {prev}) |-> FirstCallRows(k)]
  /\ dcd_frames = FramesUpTo(currentStep)
  /\ raised = {}
  /\ metafile = <<>>
  /\ wham_runs = <<>>
  /\ NotebookConfig
  /\ AnalysisIdle
  /\ ChkIdle
  /\ LJIdle

InitCalls ==
  \E w \in DOMAIN windows, prev \in {NoWindow} \cup DOMAIN windows, c \in CVValues :
    AnyCallState(w, prev, c)

NextCalls == RunWindowLoad \/ RunWindowEquil

SpecCalls == InitCalls /\ [][NextCalls]_vars

\* ---- the end of the pulling loop followed by the later cells -----------
\* States of the pulling loop two checks before its end: the engine gave
\* CVAbove at the first `captured` checks and CVBelow since.
SMDLateState(captured) ==
  /\ pc = "smd"
  /\ currentStep = smd_equil_steps + (NumChecks - 2) * increment_steps
  /\ ctx_cv = CVBelow
  /\ ctx_origin = NoWindow
  /\ ctx_r0 = r0_start + (NumChecks - 2) * r0_increment
  /\ r0 = r0_start + (NumChecks - 2) * r0_increment
  /\ i = NumChecks - 2
  /\ current_cv_value = CVBelow
  /\ window_index = captured
  /\ window_coords = [k \in 1..captured |-> [cv |-> CVAbove]]
  /\ pdb_files = [k \in {} |-> 0]
  /\ n = 0
  /\ wpc = "idle"
  /\ rec_i = 0
  /\ cv_values = <<>>
  /\ cv_files = [k \in {} |-> 0]
  /\ dcd_frames = FramesUpTo(currentStep)
  /\ raised = {}
  /\ metafile = <<>>
  /\ wham_runs = <<>>
  /\ NotebookConfig
  /\ AnalysisIdle
  /\ ChkIdle
  /\ LJIdle

InitTail == \E captured \in {0, linspace_num - 2} : SMDLateState(captured)

NextTail == SMDStep \/ SaveWindows \/ NextWindows

SpecTail == InitTail /\ [][NextTail]_vars

\* ======================= protein_in_water.ipynb ==========================
\* The checkpoint cells belong to another notebook than the umbrella
\* sampling cells: they run on their own Simulation and leave the state of
\* the umbrella sampling notebook alone.
umbrellaVars == <<pc, currentStep, dcd_frames, ctx_cv, ctx_origin, ctx_r0, smdVars, pdb_files,
                  runVars, cv_files, raised, whamVars, cfgVars, anaVars, ljVars>>

\* a reporter with this interval reports when the step count reaches a
\* multiple of the interval
ReportDue(step, interval) == step % interval = 0

\* a loadCheckpoint that restores positions and velocities only
LoadCheckpointStep_KeepsCounter(file_step, counter) == counter

\* simulation.loadCheckpoint('checkpoint.chk'): the step count is part of
\* the checkpointed context state and replaces the fresh Simulation's count
LoadCheckpointStep(file_step, counter) == file_step

Running == chk_pc \in {"first_run", "resume_run", "loop_run"}

\* the runs in their order: the first run, the resume cell, the iterations
\* of the resume loop
RunNo ==
  IF chk_pc = "first_run" THEN 0 ELSE IF chk_pc = "resume_run" THEN 1 ELSE 2 + loop_i

\* a reporter that never replaces an existing checkpoint.chk
CheckpointWrite_KeepsFirst(held, step) == IF held = NoFile THEN step ELSE held

\* CheckpointReporter writes the current state over checkpoint.chk: "only
\* the last checkpoint will be saved in the file" (625)
CheckpointWrite(held, step) == step

\* the StateDataReporter on md_log.txt (436, 704-705, 768-769) adds a row
\* at the end of the file; append=True keeps the rows of the earlier runs
AppendRow(tail, step) == <<tail[2], step>>

\* ---- cell "Setup the Checkpoint" (607-617) ------------------------------
ChkSetup ==
  /\ chk_pc = "setup"
  /\ chk_reporter' = TRUE
  /\ chk_pc' = "first_ready"
  /\ UNCHANGED <<sim_step, chk_file, run_chunks, last_stop, loop_i, chk_writer,
                 last_loaded, md_log_tail>>
  /\ UNCHANGED umbrellaVars

\* ---- simulation.runForClockTime(30.0*seconds) (651) ---------------------
RunFirst ==
  /\ chk_pc = "first_ready"
  /\ run_chunks' = 0
  /\ chk_pc' = "first_run"
  /\ UNCHANGED <<sim_step, chk_file, chk_reporter, last_stop, loop_i, chk_writer,
                 last_loaded, md_log_tail>>
  /\ UNCHANGED umbrellaVars

\* one piece of 10 steps of a running runForClockTime, followed by the
\* reports that fall due at the step reached
RunChunk ==
  /\ Running
  /\ run_chunks < MaxRunChunks
  /\ sim_step' = sim_step + clock_check_steps
  /\ run_chunks' = run_chunks + 1
  /\ IF chk_reporter /\ ReportDue(sim_step', checkpoint_interval)
       THEN chk_file' = CheckpointWrite(chk_file, sim_step') /\ chk_writer' = RunNo
       ELSE UNCHANGED <<chk_file, chk_writer>>
  /\ md_log_tail' = IF ReportDue(sim_step', md_log_interval)
                      THEN AppendRow(md_log_tail, sim_step')
                      ELSE md_log_tail
  /\ UNCHANGED <<chk_pc, chk_reporter, last_stop, loop_i, last_loaded>>
  /\ UNCHANGED umbrellaVars

\* the wall-clock limit is found exceeded after a piece: the run returns
RunReturn ==
  /\ Running
  /\ run_chunks >= 1
  /\ last_stop' = sim_step
  /\ run_chunks' = 0
  /\ IF chk_pc = "first_run"
       THEN chk_pc' = "resume_ready" /\ UNCHANGED loop_i
       ELSE IF chk_pc = "resume_run"
         THEN chk_pc' = "loop_ready" /\ loop_i' = 0
         ELSE IF loop_i + 1 < resume_iterations
           THEN chk_pc' = "loop_ready" /\ loop_i' = loop_i + 1
           ELSE chk_pc' = "chk_done" /\ UNCHANGED loop_i
  /\ UNCHANGED <<sim_step, chk_file, chk_reporter, chk_writer, last_loaded, md_log_tail>>
  /\ UNCHANGED umbrellaVars

\* Simulation(...) followed by loadCheckpoint and the reporters, up to the
\* start of runForClockTime; without checkpoint.chk loadCheckpoint raises
\* and leaves the fresh Simulation without reporters
LoadAndRun(run_pc, raised_pc) ==
  /\ IF chk_file = NoFile
       THEN /\ sim_step' = 0
            /\ chk_reporter' = FALSE
            /\ chk_pc' = raised_pc
            /\ UNCHANGED last_loaded
       ELSE /\ sim_step' = LoadCheckpointStep(chk_file, 0)
            /\ last_loaded' = sim_step'
            /\ chk_reporter' = TRUE
            /\ chk_pc' = run_pc
  /\ run_chunks' = 0
  /\ UNCHANGED <<chk_file, last_stop, chk_writer, md_log_tail>>
  /\ UNCHANGED umbrellaVars

\* ---- cell "Resume From a Checkpoint" (680-711) --------------------------
ResumeLoad ==
  /\ chk_pc = "resume_ready"
  /\ LoadAndRun("resume_run", "resume_raised")
  /\ UNCHANGED loop_i

\* ---- cell "Resume Multiple Times" (740-775), one iteration --------------
LoopLoad ==
  /\ chk_pc \in {"loop_ready", "resume_raised"}
  /\ LoadAndRun("loop_run", "loop_raised")
  /\ loop_i' = IF chk_pc = "resume_raised" THEN 0 ELSE loop_i

NextChk == ChkSetup \/ RunFirst \/ RunChunk \/ RunReturn \/ ResumeLoad \/ LoopLoad

SpecChk == Init /\ [][NextChk]_vars

\* ======================= Lennard-Jones section ===========================
nonLJVars == <<pc, currentStep, dcd_frames, ctx_cv, ctx_origin, ctx_r0, smdVars,
               pdb_files, runVars, cv_files, raised, whamVars, cfgVars, anaVars, chkVars>>

\* the Simulation whose context gets setVelocitiesToTemperature in the cell:
\* `simulation.context` in all three cells (307, 353, 447)
VelocitiesSetOn(cell) == "simulation"

\* a cell up to its first step: the Simulation is created (its context
\* starts with zero velocities), positions are set, and
\* setVelocitiesToTemperature is called
LJSetup ==
  /\ lj_pc = "setup"
  /\ lj_vel' = [[lj_vel EXCEPT ![LJSim(lj_cell)] = ZeroVelocities]
                   EXCEPT ![VelocitiesSetOn(lj_cell)] = lj_temperature]
  /\ lj_steps' = [lj_steps EXCEPT ![LJSim(lj_cell)] = 0]
  /\ lj_pc' = "run"
  /\ UNCHANGED lj_cell
  /\ UNCHANGED nonLJVars

\* the steps of the cell's Simulation up to its next report; the
\* thermostat leaves the velocities at one of the temperatures
LJStepChunk ==
  /\ lj_pc = "run"
  /\ lj_steps[LJSim(lj_cell)] < LJRunSteps(lj_cell)
  /\ lj_steps' = [lj_steps EXCEPT ![LJSim(lj_cell)] = @ + lj_report_interval]
  /\ \E t \in LJTemps : lj_vel' = [lj_vel EXCEPT ![LJSim(lj_cell)] = t]
  /\ UNCHANGED <<lj_cell, lj_pc>>
  /\ UNCHANGED nonLJVars

\* the cell is over; the next cell is run
LJNextCell ==
  /\ lj_pc = "run"
  /\ lj_steps[LJSim(lj_cell)] = LJRunSteps(lj_cell)
  /\ IF lj_cell < 3
       THEN lj_cell' = lj_cell + 1 /\ lj_pc' = "setup"
       ELSE lj_pc' = "done" /\ UNCHANGED lj_cell
  /\ UNCHANGED <<lj_vel, lj_steps>>
  /\ UNCHANGED nonLJVars

NextLJ == LJSetup \/ LJStepChunk \/ LJNextCell

SpecLJ == Init /\ [][NextLJ]_vars

\* ======================= properties ======================================

\* step counter at which run_window(w) is entered when every earlier
\* window has run to its end
WindowStartStep(w) == smd_equil_steps + total_steps + w * (equil_steps + window_total_steps)

\* C1: after every CV check of the pulling loop, each target centre that is
\* <= the CV observed at that check has a recorded snapshot.
C1_ReachedTargetsCaptured ==
  (pc \in {"smd", "save"} /\ i > 0) =>
     \A k \in DOMAIN windows :
        windows[k] <= current_cv_value => k + 1 <= Len(window_coords)

\* C2: when the steering cell has completed (all NumChecks checks done and
\* the snapshots saved) exactly 24 snapshot files window_0 .. window_23 exist.
C2_AllSnapshotsWritten ==
  pc = "ready" =>
     /\ i = NumChecks
     /\ DOMAIN pdb_files = 0..(linspace_num - 1)
     /\ \A k \in DOMAIN pdb_files : pdb_files[k] = window_coords[k + 1]

\* C3: a steering run that used up its checks with fewer than N targets
\* captured has ended in an error of the SMD cell; it has not finished
\* normally.
C3_IncompleteCaptureReported ==
  (pc \notin {"equilibrate", "smd"} /\ window_index < linspace_num) =>
     \E e \in raised : e.cell = "smd"

\* C4: windows are captured in index order (snapshot k belongs to target k)
\* and the CV observed at the capture of window k+1 is >= the CV observed
\* at the capture of window k.
C4_MonotonicCapture ==
  /\ Len(window_coords) = window_index
  /\ \A k \in 1..Len(window_coords) : window_coords[k].cv >= windows[k - 1]
  /\ \A k \in 1..(Len(window_coords) - 1) :
        window_coords[k + 1].cv >= window_coords[k].cv

C6_SiblingsStillRun ==
  (pc \in {"windows_done", "windows_raised"}
     /\ \E e \in raised : e.cell = "windows" /\ e.kind = "OpenMMException")
  => \A w \in 0..(num_runs - 1) :
        (\A e \in raised : ~(e.cell = "windows" /\ e.window = w)) => w \in DOMAIN cv_files

\* C7: during run_window(n) the restraint centre held by the context is
\* windows[n], from before the first equilibration step until after the last
\* recorded sample, and no step of the run changes it.
C7_RestraintFrozen ==
  /\ (pc = "windows" /\ wpc \in {"equil", "record"}) => ctx_r0 = windows[n]
  /\ \A k \in 1..Len(cv_values) : cv_values[k].r0 = ctx_r0

C7_Witness ==
  /\ pc = "windows" /\ n = 1 /\ wpc = "record" /\ rec_i = NumSamples
  /\ ctx_r0 = windows[1]
  /\ ctx_r0 # r0_final

\* C8: each completed window run has a timeseries of exactly
\* window_total_steps/record_steps = 100 rows, indexed 0..99 in order, row k
\* taken after equil_steps + (k+1)*record_steps steps of the run, so that no
\* equilibration step contributes a row.
C8_TimeseriesShape ==
  \A w \in DOMAIN cv_files :
     /\ Len(cv_files[w]) = window_total_steps \div record_steps
     /\ Len(cv_files[w]) = 100
     /\ \A k \in 1..Len(cv_files[w]) :
           /\ cv_files[w][k].i = k - 1
           /\ cv_files[w][k].step = WindowStartStep(w) + equil_steps + k * record_steps

C8_Witness ==
  /\ pc = "windows_done"
  /\ DOMAIN cv_files = 0..(num_runs - 1)

\* C9: during steering the restraint centre never exceeds 3.3 nm and equals
\* 3.3 nm when the pulling loop has ended.
C9_CenterEndsAtStop ==
  /\ ctx_r0 <= linspace_stop
  /\ pc \in {"save", "ready"} => ctx_r0 = linspace_stop

\* C10: whenever the metadata file exists, and whenever wham is started on
\* it, every window has run to its end and cv_values_window_i.txt exists and
\* is complete for every window i the metadata file lists.
MetafileBacked(meta) ==
  \A k \in 1..Len(meta) :
     /\ meta[k].file \in DOMAIN cv_files
     /\ Len(cv_files[meta[k].file]) = window_total_steps \div record_steps

C10_WhamAfterAllWindows ==
  /\ MetafileBacked(metafile)
  /\ metafile # <<>> => (pc \notin {"ready", "windows"} /\ DOMAIN cv_files = 0..(num_runs - 1))
  /\ \A r \in 1..Len(wham_runs) : MetafileBacked(wham_runs[r].meta)

C10_Witness ==
  /\ Len(wham_runs) = 1
  /\ Len(wham_runs[1].meta) = linspace_num

\* C11: the metadata file has one line per window, in window order; line i
\* names cv_values_window_i.txt, the centre under which every row of that
\* file was sampled (windows[i]) and the force constant fc_pull of the
\* restraint.
C11_MetafileLines ==
  metafile # <<>> =>
     /\ Len(metafile) = linspace_num
     /\ \A k \in 1..Len(metafile) :
           /\ metafile[k].file = k - 1
           /\ metafile[k].center = windows[k - 1]
           /\ metafile[k].fc = fc_pull
           /\ \A r \in 1..Len(cv_files[k - 1]) : cv_files[k - 1][r].r0 = metafile[k].center

C11_Witness ==
  /\ pc = "meta_done"
  /\ Len(metafile) = linspace_num
  /\ Len(cv_files[linspace_num - 1]) = NumSamples

\* C12: snapshot files and windows correspond one to one: window_k.pdb
\* exists only once the save loop has run, it holds the k-th captured
\* configuration (captured against target windows[k]), no file is written
\* a second time, and run_window(n) loads window_n.pdb.
C12_FilesState ==
  /\ pc \in {"equilibrate", "smd", "save"} => DOMAIN pdb_files = {}
  /\ pc \notin {"equilibrate", "smd", "save"} =>
        /\ DOMAIN pdb_files = 0..(Len(window_coords) - 1)
        /\ \A k \in DOMAIN pdb_files :
              pdb_files[k] = window_coords[k + 1] /\ pdb_files[k].cv >= windows[k]
  /\ (pc = "windows" /\ wpc = "equil") =>
        ctx_origin = n /\ ctx_cv = pdb_files[n].cv

ValidConfig ==
  /\ cfg_fc # 0
  /\ \A k \in DOMAIN cfg_windows :
        (k + 1) \in DOMAIN cfg_windows => cfg_windows[k] <= cfg_windows[k + 1]

C16_UnconvergedFlagged ==
  \A k \in 1..Len(plot) :
    plot[k].pmf.outcome = "CONVERGED" \/ plot[k].marked_unconverged

\* two neighbouring windows whose timeseries hold no value in common
HasGap(h) ==
  \E w \in DOMAIN h : (w + 1) \in DOMAIN h /\ h[w] \cap h[w + 1] = {}

\* C19: wham has iterated over timeseries in which two adjacent windows
\* share no histogram bin only if that was flagged as a warning or error.
C19_NoOverlapFlagged ==
  (wham_log \in WhamOutcomes /\ HasGap(hist_support))
    => \E e \in raised : e.kind = "NoOverlap"

\* C20: right after loadCheckpoint('checkpoint.chk') the step counter is the
\* step of the most recent checkpoint write: the last multiple of 1000 the
\* previous run reached, never beyond the step at which that run stopped.
C20_ResumesFromLastCheckpoint ==
  (chk_pc \in {"resume_run", "loop_run"} /\ run_chunks = 0) =>
    /\ sim_step = chk_file
    /\ sim_step = (last_stop \div checkpoint_interval) * checkpoint_interval
    /\ sim_step <= last_stop

\* the third iteration of the resume loop has loaded a checkpoint older
\* than the step at which the previous run stopped
C20_Witness ==
  /\ chk_pc = "loop_run"
  /\ run_chunks = 0
  /\ loop_i = resume_iterations - 1
  /\ sim_step < last_stop

\* C21: once the first runForClockTime with the CheckpointReporter attached
\* has returned, checkpoint.chk exists, so the resume cell never fails to
\* load it.
C21_CheckpointExists ==
  /\ chk_pc = "resume_ready" => chk_file # NoFile
  /\ chk_pc # "resume_raised"

C22_FileState ==
  /\ chk_file # NoFile =>
       chk_file = (sim_step \div checkpoint_interval) * checkpoint_interval
  /\ (chk_pc \in {"resume_run", "loop_run"} /\ run_chunks = 0) =>
       (last_loaded = chk_file /\ chk_writer < RunNo)

C27_LogStepsIncrease == md_log_tail[1] < md_log_tail[2]

\* the pointer stays within the target list and counts the stored snapshots
C23_PointerState ==
  /\ 0 <= window_index
  /\ window_index <= Cardinality(DOMAIN windows)
  /\ Len(window_coords) = window_index

\* C23: each target is captured at most once: the pointer stays within
\* 0..len(windows) and equals the number of stored snapshots, and a check
\* stores at most one snapshot, for the target the pointer is at, and only
\* when the CV observed at that check is >= that target.
C23_CapturedAtMostOnce ==
  /\ []C23_PointerState
  /\ [][window_coords' # window_coords =>
          /\ pc = "smd"
          /\ window_index < Cardinality(DOMAIN windows)
          /\ current_cv_value' >= windows[window_index]
          /\ window_coords' = Append(window_coords, [cv |-> current_cv_value'])
          /\ window_index' = window_index + 1]_vars

\* every target is captured and a later check observes a CV above all
\* targets without storing anything
C23_Witness ==
  /\ pc = "smd"
  /\ window_index = linspace_num
  /\ Len(window_coords) = linspace_num
  /\ i > linspace_num
  /\ current_cv_value = CVAbove

\* between two iterations of the pulling loop the context holds the center
\* of the python variable, start + i*delta, under which batch i runs; after
\* the loop it still holds the last center written
C24_CenterState ==
  /\ pc \in {"smd", "save", "ready"} =>
       (ctx_r0 = r0 /\ ctx_r0 = r0_start + i * r0_increment)
  /\ pc \in {"save", "ready"} => i = total_steps \div increment_steps

\* C24: an iteration of the pulling loop advances increment_steps, reads
\* the CV of the configuration reached, then increases the center by delta
\* and writes it to the context: batch k runs under start + k*delta, the
\* center in the context never decreases and is not reset after the loop.
C24_CenterAdvances ==
  /\ []C24_CenterState
  /\ [][/\ ctx_r0' >= ctx_r0
        /\ (i' # i) => (/\ currentStep' = currentStep + increment_steps
                        /\ current_cv_value' = ctx_cv'
                        /\ ctx_r0' > ctx_r0)]_vars

\* the steering cell has finished and the context holds the last center,
\* beyond the last target
C24_Witness ==
  /\ pc = "ready"
  /\ ctx_r0 = r0_start + (total_steps \div increment_steps) * r0_increment
  /\ ctx_r0 > linspace_stop

\* C25: before the first step of run_window(n) the context holds the
\* configuration of window_n.pdb and the centre windows[n], whichever window
\* ran before it.
C25_ExplicitReset ==
  (pc = "windows" /\ wpc = "equil") =>
    /\ ctx_origin = n
    /\ ctx_cv = pdb_files[n].cv
    /\ ctx_r0 = windows[n]

\* run_window(5) is about to equilibrate after run_window(17) has run
C25_Witness ==
  /\ pc = "windows" /\ wpc = "equil" /\ n = 5
  /\ DOMAIN cv_files = {17}
  /\ ctx_origin = 5
  /\ ctx_r0 = windows[5]

\* the targets the center has reached when it is at r
TargetsUpTo(r) == {k \in DOMAIN windows : windows[k] <= r}

\* the center written to the context has not moved by a target spacing or
\* more since the previous check
C26_CenterState ==
  (pc = "smd" /\ i > 0) =>
    \A k \in DOMAIN windows : (k + 1) \in DOMAIN windows =>
       ctx_r0 - (r0_start + (i - 1) * r0_increment) < windows[k + 1] - windows[k]

\* C26: between two consecutive checks of the pulling loop the restraint
\* center passes at most one target: its increment per check is smaller
\* than the spacing of adjacent targets.
C26_AtMostOneTargetPerCheck ==
  /\ []C26_CenterState
  /\ [][Cardinality(TargetsUpTo(ctx_r0') \ TargetsUpTo(ctx_r0)) <= 1]_vars

\* a check at which the center has just passed target 1
C26_Witness ==
  /\ pc = "smd"
  /\ i > 0
  /\ ctx_r0 >= windows[1]
  /\ ctx_r0 - r0_increment < windows[1]

\* every stored snapshot, in memory and on disk, has a CV >= its target
C28_SnapshotState ==
  /\ \A k \in 1..Len(window_coords) : window_coords[k].cv >= windows[k - 1]
  /\ \A k \in DOMAIN pdb_files : pdb_files[k].cv >= windows[k]

\* C28: the snapshot stored for a window is the configuration whose CV was
\* compared with the target: the iteration that stores it takes its
\* increment_steps steps, evaluates the CV and stores the configuration the
\* context then holds, with no further step; its CV is >= the target.
C28_SnapshotIsComparedConfig ==
  /\ []C28_SnapshotState
  /\ [][window_coords' # window_coords =>
          /\ currentStep' = currentStep + increment_steps
          /\ window_coords'[Len(window_coords')].cv = ctx_cv'
          /\ current_cv_value' = ctx_cv']_vars

\* window 1 was captured on a configuration exactly at its target and the
\* dynamics has moved on since
C28_Witness ==
  /\ Len(window_coords) >= 2
  /\ window_coords[2].cv = windows[1]
  /\ ctx_cv = CVBelow
  /\ pc = "smd"

\* C29: run_window works on the steering Simulation, so the step count is
\* cumulative (31000 steps before window 0, 11000 more per completed window)
\* and smd_traj.dcd holds a frame for every multiple of 10000 cumulative
\* steps, those reached during window sampling included.
C29_CounterAndReporterCarryOver ==
  /\ (pc = "windows" /\ wpc = "load") =>
        currentStep = 31000 + 11000 * n
  /\ pc = "windows_done" =>
        /\ currentStep = 31000 + 11000 * (n + 1)
        /\ \E s \in dcd_frames : s > 31000
  /\ pc \in {"windows", "windows_done"} =>
        dcd_frames = {10000 * k : k \in 1..(currentStep \div 10000)}

\* all windows have run and the last trajectory frame was written at step
\* 290000, during the sampling of window 23
C29_Witness ==
  /\ pc = "windows_done"
  /\ n = num_runs - 1
  /\ 290000 \in dcd_frames
  /\ 300000 \notin dcd_frames

\* C30: each of the three Lennard-Jones simulations has the velocities of
\* its own context set to 300 K before its first step.
C30_VelocitiesSetBeforeFirstStep ==
  (lj_pc = "run" /\ lj_steps[LJSim(lj_cell)] = 0) =>
     lj_vel[LJSim(lj_cell)] = lj_temperature
====
